---- MODULE Spec2Model ----
(***************************************************************************)
(* Event-driven backtester of stock_playground/simple_quant.               *)
(*                                                                         *)
(* RobustPortfolio (portfolio/simple.py), SimulatedExecutionHandler        *)
(* (execution/backtest.py), the events (events.py) and the strategy        *)
(* interface (strategy/base.py) are translated from their source.  The     *)
(* bar data feed (simple_quant.data) and the engine (simple_quant.engine)  *)
(* are imported by the run scripts but are not part of the source tree;    *)
(* they are modelled from sections 4.2 and 4.6 of the specification.       *)
(*                                                                         *)
(* Money is counted in thousandths of a currency unit (1.0 = 1000) and a   *)
(* signal strength in thousandths (1.0 = 1000), so that the float          *)
(* arithmetic of the source is exact integer arithmetic here.              *)
(***************************************************************************)
EXTENDS Integers, Sequences, FiniteSets, TLC

VARIABLES
    symbol_data,        \* feed: symbol -> its bars, ascending by date
    cursor,             \* feed: symbol -> number of its bars already seen
    continue_backtest,  \* feed: FALSE once exhaustion was reported
    events,             \* the shared queue.Queue
    current_positions,  \* RobustPortfolio.current_positions
    current_holdings,   \* RobustPortfolio.current_holdings
    all_positions,      \* RobustPortfolio.all_positions
    all_holdings,       \* RobustPortfolio.all_holdings (the equity curve)
    trade_history,      \* RobustPortfolio.trade_history
    pc,                 \* engine: "advance", "drain", "done" or "failed"
    nextId,             \* history: number of events pushed so far
    dispatched,         \* history: the last dispatch of the engine
    applied,            \* history: the FillEvents handed to update_fill
    signalled,          \* history: number of signals the strategy has pushed
    calls,              \* history: handler -> number of times the engine called it
    trace,              \* history: what the last update_signal decided
    twin,               \* the same run replayed under another wall clock
    stats,              \* what output_summary_stats has computed
    strategy            \* the strategy object: its class and its bought flags

vars == <<symbol_data, cursor, continue_backtest, events, current_positions,
          current_holdings, all_positions, all_holdings, trade_history, pc,
          nextId, dispatched, applied, signalled, calls, trace, twin, stats,
          strategy>>

(***************************************************************************)
(* Bounds and input sets                                                   *)
(***************************************************************************)
MaxDate == 2       \* the input data spans the dates 1..MaxDate
MaxSignals == 2    \* signals the strategy pushes in one run, at most
MaxRows == 3       \* rows of an equity curve handed to the statistics

Symbols == {"A", "B"}
symbol_list == <<"A", "B">>
Dates == 1..MaxDate
ClosePaths == {"rise", "fall"}
EdgePaths == {"crash", "zero", "negative", "halt"}
Strengths == {500, 1500}
InitialCapitals == {6000}

\* Python None, and the datetime of a symbol that has no bar yet.
None == -1000000
NoDate == 0

\* float('nan'): the close of a bar without a price.
NaN == -2000000

(***************************************************************************)
(* Arithmetic helpers                                                      *)
(***************************************************************************)
Abs(x) == IF x < 0 THEN -x ELSE x

Max(a, b) == IF a >= b THEN a ELSE b

\* Python int(a / b): the quotient truncated towards zero.
TruncDiv(a, b) ==
    LET q == Abs(a) \div Abs(b)
    IN IF (a < 0) # (b < 0) THEN -q ELSE q

Last(q) == q[Len(q)]

RECURSIVE SumOver(_, _)
SumOver(S, f) ==
    IF S = {} THEN 0
    ELSE LET x == CHOOSE y \in S : TRUE
         IN f[x] + SumOver(S \ {x}, f)

(***************************************************************************)
(* Bar data feed                                                           *)
(***************************************************************************)
Bar(d, c) == [date |-> d, Close |-> c, Volume |-> 100 * d]

\* The closes of the input data: A moves between 2.0 and 3.0 from one date
\* to the next, starting low on the path "rise" and high on "fall"; B
\* stays at 5.0.  On the paths of EdgePaths A opens at 3.0 and then closes
\* at 0.5 ("crash"), at 0 ("zero") or at -2.0 ("negative"), or its bars have
\* no close any more ("halt").
CloseOn(s, path, d) ==
    IF s = "B" THEN 5000
    ELSE IF path \in {"rise", "fall"}
         THEN (IF (path = "rise") = (d % 2 = 1) THEN 2000 ELSE 3000)
    ELSE IF d = 1 THEN 3000
    ELSE IF path = "crash" THEN 500
    ELSE IF path = "zero" THEN 0
    ELSE IF path = "negative" THEN -2000
    ELSE NaN

\* The dates a symbol can have bars on: all of them, or all but one.
DateSets == {ds \in SUBSET Dates : Cardinality(Dates \ ds) <= 1}

\* The series of a symbol with bars on the dates ds, ascending by date.
RECURSIVE SeriesOn(_, _, _)
SeriesOn(s, path, ds) ==
    IF ds = {} THEN <<>>
    ELSE LET d == CHOOSE x \in ds : \A y \in ds : x >= y
         IN Append(SeriesOn(s, path, ds \ {d}), Bar(d, CloseOn(s, path, d)))

get_latest_bar_datetime(s) ==
    IF cursor[s] = 0 THEN NoDate ELSE symbol_data[s][cursor[s]].date

get_latest_bar_value(s, field) ==
    IF cursor[s] = 0 THEN None
    ELSE IF field = "Close" THEN symbol_data[s][cursor[s]].Close
    ELSE symbol_data[s][cursor[s]].Volume

get_latest_bars_values(s, field, N) ==
    LET k == cursor[s]
        from == IF k > N THEN k - N + 1 ELSE 1
    IN [i \in 1..(k - from + 1) |->
          IF field = "Close" THEN symbol_data[s][from + i - 1].Close
          ELSE symbol_data[s][from + i - 1].Volume]

Unseen == {s \in Symbols : cursor[s] < Len(symbol_data[s])}

Movers_by_row(d) == Unseen

\* The symbols that have a bar on date d, the next date: they move.
Movers(d) == {s \in Unseen : symbol_data[s][cursor[s] + 1].date = d}

NextDate_latest ==
    LET ds == {symbol_data[s][cursor[s] + 1].date : s \in Unseen}
    IN CHOOSE d \in ds : \A e \in ds : d >= e

NextDate ==
    LET ds == {symbol_data[s][cursor[s] + 1].date : s \in Unseen}
    IN CHOOSE d \in ds : \A e \in ds : d <= e

\* The date the feed has advanced to.
FeedDate ==
    LET ds == {get_latest_bar_datetime(s) : s \in Symbols}
    IN CHOOSE d \in ds : \A e \in ds : d >= e

(***************************************************************************)
(* Events                                                                  *)
(***************************************************************************)
Event(t) == [type |-> t, symbol |-> "", datetime |-> NoDate, signal_type |-> "",
             strength |-> 0, quantity |-> 0, direction |-> "",
             fill_cost |-> None, commission |-> 0, id |-> 0, date |-> NoDate,
             timestamp |-> 0]

\* datetime.now() when the run, and when its replay, is started; every event
\* built later reads a later clock.
RunClocks == <<100, 200>>

MarketEvent == Event("MARKET")

SignalEvent(sym, dt, st, str) ==
    [Event("SIGNAL") EXCEPT !.symbol = sym, !.datetime = dt,
                            !.signal_type = st, !.strength = str]

OrderEvent(sym, qty, dir) ==
    [Event("ORDER") EXCEPT !.symbol = sym, !.quantity = qty, !.direction = dir]

FillEvent(sym, qty, dir, cost, comm) ==
    [Event("FILL") EXCEPT !.symbol = sym, !.quantity = qty, !.direction = dir,
                          !.fill_cost = cost, !.commission = comm]

(***************************************************************************)
(* The state the handlers work on, as one record                           *)
(***************************************************************************)
World == [events |-> events, current_positions |-> current_positions,
          current_holdings |-> current_holdings, all_positions |-> all_positions,
          all_holdings |-> all_holdings, trade_history |-> trade_history,
          nextId |-> nextId, failed |-> FALSE, trace |-> trace,
          clock |-> RunClocks[1]]

\* What update_signal read when it last ran: the price, the cash and the
\* position of the signal's symbol, the equity and the quantity it sized.
NoTrace == [handled |-> FALSE, price |-> None, equity |-> 0, sized |-> 0,
            cash |-> 0, position |-> 0]

\* An event as it is built and pushed: timestamp is datetime.now(); id and
\* date are history fields, the rank of the push and the feed date at the push.
Stamped(w, ev, date) ==
    [ev EXCEPT !.id = w.nextId + 1, !.date = date,
               !.timestamp = w.clock + w.nextId + 1]

\* Queue.put: the event joins the tail of the queue.
put_front(w, ev) ==
    [w EXCEPT !.events = <<Stamped(w, ev, FeedDate)>> \o @, !.nextId = @ + 1]

put(w, ev) ==
    [w EXCEPT !.events = Append(@, Stamped(w, ev, FeedDate)), !.nextId = @ + 1]

RECURSIVE putAll(_, _)
putAll(w, evs) == IF evs = <<>> THEN w ELSE putAll(put(w, Head(evs)), Tail(evs))

(***************************************************************************)
(* Strategy: pushes the signals it decides on, for a MarketEvent only      *)
(***************************************************************************)
Signals == {SignalEvent(s, NoDate, "LONG", str) : s \in Symbols, str \in Strengths}
           \cup {SignalEvent(s, NoDate, "EXIT", 1000) : s \in Symbols}

SignalSeqs(k) == UNION {[1..n -> Signals] : n \in 0..k}

calculate_signals(w, event, sigs) ==
    IF event.type = "MARKET"
    THEN putAll(w, [i \in 1..Len(sigs) |->
                      [sigs[i] EXCEPT !.datetime = get_latest_bar_datetime(sigs[i].symbol)]])
    ELSE w

(***************************************************************************)
(* RobustPortfolio                                                         *)
(***************************************************************************)
construct_all_positions == <<[datetime |-> NoDate, pos |-> [s \in Symbols |-> 0]]>>

construct_all_holdings(capital) ==
    <<[datetime |-> NoDate, val |-> [s \in Symbols |-> 0], cash |-> capital,
       commission |-> 0, total |-> capital]>>

construct_current_holdings(capital) ==
    [val |-> [s \in Symbols |-> 0], cash |-> capital, commission |-> 0,
     total |-> capital]

\* Lines 79-88: the market value of each symbol, the stored value standing
\* in for a symbol without a price.
market_values(w) ==
    [s \in Symbols |->
        LET market_price == get_latest_bar_value(s, "Close")
        IN IF market_price = None \/ market_price = NaN THEN w.current_holdings.val[s]
           ELSE w.current_positions[s] * market_price]

holdings_row_stale_cash(w, latest_datetime) ==
    [datetime |-> latest_datetime, val |-> market_values(w),
     cash |-> Last(w.all_holdings).cash,
     commission |-> w.current_holdings.commission,
     total |-> Last(w.all_holdings).cash + SumOver(Symbols, market_values(w))]

holdings_row_cash_only(w, latest_datetime) ==
    [datetime |-> latest_datetime, val |-> market_values(w),
     cash |-> w.current_holdings.cash,
     commission |-> w.current_holdings.commission,
     total |-> w.current_holdings.cash]

\* Lines 72-89: the row dh of the equity curve.
holdings_row(w, latest_datetime) ==
    [datetime |-> latest_datetime, val |-> market_values(w),
     cash |-> w.current_holdings.cash,
     commission |-> w.current_holdings.commission,
     total |-> w.current_holdings.cash + SumOver(Symbols, market_values(w))]

\* Mark-to-market: one row appended to all_positions and to all_holdings.
update_timeindex(w, event) ==
    LET latest_datetime == get_latest_bar_datetime(symbol_list[1])
        dp == [datetime |-> latest_datetime, pos |-> w.current_positions]
        dh == holdings_row(w, latest_datetime)
    IN [w EXCEPT !.all_positions = Append(@, dp),
                 !.current_holdings.total = dh.total,
                 !.all_holdings = Append(@, dh)]

\* Total equity as update_signal recomputes it: cash plus every position
\* that has a non-zero price; NaN as soon as a held symbol's price is NaN.
current_equity(w) ==
    IF \E s \in Symbols : /\ get_latest_bar_value(s, "Close") = NaN
                          /\ w.current_positions[s] # 0
    THEN NaN
    ELSE w.current_holdings.cash
         + SumOver(Symbols, [s \in Symbols |->
               LET price == get_latest_bar_value(s, "Close")
                   qty == w.current_positions[s]
               IN IF price # None /\ price # 0 /\ qty # 0 THEN qty * price ELSE 0])

target_weight_no_exit(event) == event.strength

\* Lines 129-134: the target weight of a signal, in thousandths.
target_weight(event) ==
    IF event.signal_type = "EXIT" THEN 0 ELSE event.strength

\* Lines 136-148: int((equity * weight - current_value) / current_price).
quantity_to_trade(equity, weight, current_value, current_price) ==
    TruncDiv(equity * weight - 1000 * current_value, 1000 * current_price)

cash_constraint_round_up(quantity, current_price, cash) ==
    IF quantity * current_price > cash THEN TruncDiv(cash, current_price) + 1
    ELSE quantity

\* Lines 160-166: a BUY that costs more than the cash is cut to int(cash / price).
cash_constraint(quantity, current_price, cash) ==
    IF quantity * current_price > cash THEN TruncDiv(cash, current_price)
    ELSE quantity

sell_cap_keep_one(quantity, current_qty) ==
    IF Abs(quantity) >= Abs(current_qty) THEN Abs(current_qty) - 1 ELSE Abs(quantity)

\* Lines 168-172: a SELL is capped at the quantity held.
sell_cap(quantity, current_qty) ==
    IF Abs(quantity) > Abs(current_qty) THEN Abs(current_qty) ELSE Abs(quantity)

update_signal_unguarded(w, event) ==
    IF event.type # "SIGNAL" THEN w
    ELSE
    LET symbol == event.symbol
        current_price == get_latest_bar_value(symbol, "Close")
        equity == current_equity(w)
        current_qty == w.current_positions[symbol]
        current_value == current_qty * current_price
        sized == quantity_to_trade(equity, target_weight(event), current_value,
                                   current_price)
        cash == w.current_holdings.cash
        quantity == IF sized > 0 THEN cash_constraint(sized, current_price, cash)
                    ELSE sell_cap(sized, current_qty)
        direction == IF sized > 0 THEN "BUY" ELSE "SELL"
        tr == [NoTrace EXCEPT !.handled = TRUE, !.price = current_price,
                              !.cash = cash, !.position = current_qty]
    IN IF current_price = None \/ current_price = 0
       THEN [w EXCEPT !.trace = tr]
       ELSE IF current_price = NaN \/ equity = NaN
       THEN [w EXCEPT !.trace = tr, !.failed = TRUE]
       ELSE IF sized = 0
       THEN [w EXCEPT !.trace = [tr EXCEPT !.equity = equity, !.sized = sized]]
       ELSE [put(w, OrderEvent(symbol, quantity, direction)) EXCEPT
                !.trace = [tr EXCEPT !.equity = equity, !.sized = sized],
                !.failed = (equity = 0)]

update_signal(w, event) ==
    IF event.type # "SIGNAL" THEN w
    ELSE
    LET symbol == event.symbol
        current_price == get_latest_bar_value(symbol, "Close")
        equity == current_equity(w)
        current_qty == w.current_positions[symbol]
        current_value == current_qty * current_price
        sized == quantity_to_trade(equity, target_weight(event), current_value,
                                   current_price)
        cash == w.current_holdings.cash
        quantity == IF sized > 0 THEN cash_constraint(sized, current_price, cash)
                    ELSE sell_cap(sized, current_qty)
        direction == IF sized > 0 THEN "BUY" ELSE "SELL"
        tr == [NoTrace EXCEPT !.handled = TRUE, !.price = current_price,
                              !.cash = cash, !.position = current_qty]
    IN IF current_price = None \/ current_price = 0
       THEN [w EXCEPT !.trace = tr]
       \* int() of a NaN quotient raises ValueError
       ELSE IF current_price = NaN \/ equity = NaN
       THEN [w EXCEPT !.trace = tr, !.failed = TRUE]
       ELSE IF sized = 0 \/ quantity <= 0
       THEN [w EXCEPT !.trace = [tr EXCEPT !.equity = equity, !.sized = sized]]
       ELSE [put(w, OrderEvent(symbol, quantity, direction)) EXCEPT
                !.trace = [tr EXCEPT !.equity = equity, !.sized = sized],
                \* the report line divides by current_equity
                !.failed = (equity = 0)]

fill_dir_unsigned(direction) == 1

\* Lines 189-193: +1 for a BUY, -1 for a SELL.
fill_dir(direction) ==
    IF direction = "BUY" THEN 1 ELSE IF direction = "SELL" THEN -1 ELSE 0

cash_after_fill_no_commission(cash, cost, commission) == cash - cost

cash_after_fill_twice_commission(cash, cost, commission) ==
    cash - (cost + 2 * commission)

\* Lines 205-206: cash -= (cost + commission).
cash_after_fill(cash, cost, commission) == cash - (cost + commission)

trade_datetime_wall_clock(event) == event.timestamp

\* Line 211: the audit record is dated by the symbol's bar.
trade_datetime(event) == get_latest_bar_datetime(event.symbol)

update_fill_no_record(w, event) ==
    IF event.type # "FILL" THEN w
    ELSE
    LET fill_price == get_latest_bar_value(event.symbol, "Close")
        cost == fill_dir(event.direction) * fill_price * event.quantity
    IN IF fill_price = None THEN [w EXCEPT !.failed = TRUE]
       ELSE [w EXCEPT
               !.current_positions[event.symbol] =
                   @ + fill_dir(event.direction) * event.quantity,
               !.current_holdings.cash = cash_after_fill(@, cost, event.commission),
               !.current_holdings.commission = @ + event.commission]

\* Lines 187-218.
update_fill(w, event) ==
    IF event.type # "FILL" THEN w
    ELSE
    LET \* getattr(event, 'price', None): a FillEvent has no field 'price'
        fill_price == get_latest_bar_value(event.symbol, "Close")
        cost == fill_dir(event.direction) * fill_price * event.quantity
    IN \* None * quantity raises TypeError, the position being updated already
       IF fill_price = None
       THEN [w EXCEPT !.failed = TRUE,
                      !.current_positions[event.symbol] =
                          @ + fill_dir(event.direction) * event.quantity]
       ELSE [w EXCEPT
               !.current_positions[event.symbol] =
                   @ + fill_dir(event.direction) * event.quantity,
               !.current_holdings.cash = cash_after_fill(@, cost, event.commission),
               !.current_holdings.commission = @ + event.commission,
               !.trade_history = Append(@,
                   [datetime |-> trade_datetime(event),
                    symbol |-> event.symbol, action |-> event.direction,
                    quantity |-> event.quantity, price |-> fill_price,
                    commission |-> event.commission, cost |-> cost])]

(***************************************************************************)
(* SimulatedExecutionHandler                                               *)
(***************************************************************************)
calculate_commission_flat(quantity, fill_price) == 1000

\* max(1.0, 0.005 * quantity)
calculate_commission(quantity, fill_price) == Max(1000, 5 * quantity)

execute_order_twice(w, event) ==
    IF event.type # "ORDER" THEN w
    ELSE LET fill_price == get_latest_bar_value(event.symbol, "Close")
             fill == FillEvent(event.symbol, event.quantity, event.direction, None,
                               calculate_commission(event.quantity, fill_price))
         IN put(put(w, fill), fill)

execute_order_partial(w, event) ==
    IF event.type # "ORDER" THEN w
    ELSE LET fill_price == get_latest_bar_value(event.symbol, "Close")
         IN IF event.quantity > 1
            THEN put(w, FillEvent(event.symbol, event.quantity - 1, event.direction,
                                  None, calculate_commission(event.quantity, fill_price)))
            ELSE w

execute_order(w, event) ==
    IF event.type # "ORDER" THEN w
    ELSE LET fill_price == get_latest_bar_value(event.symbol, "Close")
         IN put(w, FillEvent(event.symbol, event.quantity, event.direction, None,
                             calculate_commission(event.quantity, fill_price)))

(***************************************************************************)
(* Backtest engine                                                         *)
(***************************************************************************)
EventTypes == {"MARKET", "SIGNAL", "ORDER", "FILL"}

Handlers == {"calculate_signals", "update_timeindex", "update_signal",
             "execute_order", "update_fill"}

Route_fill_as_signal(type) ==
    CASE type = "MARKET" -> <<"calculate_signals", "update_timeindex">>
      [] type = "SIGNAL" -> <<"update_signal">>
      [] type = "ORDER"  -> <<"execute_order">>
      [] type = "FILL"   -> <<"update_signal">>
      [] OTHER           -> <<>>

\* The handlers an event of each tag is dispatched to, in call order.
Route(type) ==
    CASE type = "MARKET" -> <<"calculate_signals", "update_timeindex">>
      [] type = "SIGNAL" -> <<"update_signal">>
      [] type = "ORDER"  -> <<"execute_order">>
      [] type = "FILL"   -> <<"update_fill">>
      [] OTHER           -> <<>>

Invoke(h, w, event, sigs) ==
    CASE h = "calculate_signals" -> calculate_signals(w, event, sigs)
      [] h = "update_timeindex"  -> update_timeindex(w, event)
      [] h = "update_signal"     -> update_signal(w, event)
      [] h = "execute_order"     -> execute_order(w, event)
      [] h = "update_fill"       -> update_fill(w, event)
      [] OTHER                   -> w

\* The handlers are called one after the other; an exception ends the dispatch.
RECURSIVE InvokeAll(_, _, _, _)
InvokeAll(hs, w, event, sigs) ==
    IF hs = <<>> \/ w.failed THEN w
    ELSE InvokeAll(Tail(hs), Invoke(Head(hs), w, event, sigs), event, sigs)

AfterDispatch_eager(w) ==
    IF w.failed THEN "failed" ELSE "advance"

AfterDispatch_swallow(w) ==
    IF w.events = <<>> THEN "advance" ELSE "drain"

\* Where the driving loop goes after a dispatch: it keeps draining until the
\* queue is empty, and stops for good on an exception.
AfterDispatch(w) ==
    IF w.failed THEN "failed"
    ELSE IF w.events = <<>> THEN "advance" ELSE "drain"

\* No replay is run along, and no statistics are computed yet.
NoTwin == [on |-> FALSE]

NoStats == [computed |-> FALSE]

\* The strategy is any object with calculate_signals: it pushes the signals it
\* likes and keeps no flag.
NoStrategy == [name |-> "", bought |-> [s \in Symbols |-> "OUT"]]

Init ==
    /\ \E path \in ClosePaths, ds \in [Symbols -> DateSets] :
          symbol_data = [s \in Symbols |-> SeriesOn(s, path, ds[s])]
    /\ cursor = [s \in Symbols |-> 0]
    /\ continue_backtest = TRUE
    /\ events = <<>>
    /\ current_positions = [s \in Symbols |-> 0]
    /\ \E capital \in InitialCapitals :
          /\ current_holdings = construct_current_holdings(capital)
          /\ all_holdings = construct_all_holdings(capital)
    /\ all_positions = construct_all_positions
    /\ trade_history = <<>>
    /\ pc = "advance"
    /\ nextId = 0
    /\ dispatched = [event |-> Event(""), handlers |-> <<>>, pushed |-> 0, nextId |-> 0,
                     failed |-> FALSE]
    /\ calls = [h \in Handlers \cup EventTypes |-> 0]
    /\ applied = <<>>
    /\ signalled = 0
    /\ trace = NoTrace
    /\ twin = NoTwin
    /\ stats = NoStats
    /\ strategy = NoStrategy

\* advance, a next date exists: the symbols that have a bar on the earliest
\* unseen date move their cursor, and one MarketEvent is pushed.
AdvancePush ==
    /\ pc = "advance"
    /\ Unseen # {}
    /\ cursor' = [s \in Symbols |->
                    IF s \in Movers(NextDate) THEN cursor[s] + 1 ELSE cursor[s]]
    /\ events' = Append(events, Stamped(World, MarketEvent, NextDate))
    /\ twin' = IF twin.on
               THEN [twin EXCEPT !.events = Append(@, Stamped(twin, MarketEvent, NextDate)),
                                 !.nextId = @ + 1]
               ELSE twin
    /\ nextId' = nextId + 1
    /\ pc' = "drain"
    /\ UNCHANGED <<symbol_data, continue_backtest, current_positions, current_holdings,
                   all_positions, all_holdings, trade_history, dispatched, applied,
                   signalled, calls, trace, stats, strategy>>

\* advance, every series is consumed: exhaustion is reported and the run ends.
AdvanceExhausted ==
    /\ pc = "advance"
    /\ Unseen = {}
    /\ continue_backtest' = FALSE
    /\ pc' = "done"
    /\ UNCHANGED <<symbol_data, cursor, events, current_positions, current_holdings,
                   all_positions, all_holdings, trade_history, nextId, dispatched,
                   applied, signalled, calls, trace, twin, stats, strategy>>

\* drain, one step: the head of the queue is popped and dispatched by its tag.
Handle(type, sigs) ==
    /\ pc = "drain"
    /\ events # <<>>
    /\ Head(events).type = type
    /\   LET event == Head(events)
             hs == Route(event.type)
             w0 == [World EXCEPT !.events = Tail(events), !.trace = NoTrace]
             w == InvokeAll(hs, w0, event, sigs)
         IN /\ events' = w.events
            /\ current_positions' = w.current_positions
            /\ current_holdings' = w.current_holdings
            /\ all_positions' = w.all_positions
            /\ all_holdings' = w.all_holdings
            /\ trade_history' = w.trade_history
            /\ nextId' = w.nextId
            /\ trace' = w.trace
            /\ signalled' = signalled + Len(sigs)
            /\ pc' = AfterDispatch(w)
            /\ dispatched' = [event |-> event, handlers |-> hs,
                              pushed |-> w.nextId - nextId, nextId |-> w.nextId,
                              failed |-> w.failed]
            /\ calls' = [h \in Handlers \cup EventTypes |->
                           calls[h] + Cardinality({i \in 1..Len(hs) : hs[i] = h})
                                    + (IF h = event.type THEN 1 ELSE 0)]
            /\ applied' =
                 IF event.type = "FILL"
                 THEN Append(applied,
                        [symbol |-> event.symbol, direction |-> event.direction,
                         quantity |-> event.quantity, commission |-> event.commission,
                         price |-> get_latest_bar_value(event.symbol, "Close"),
                         date |-> event.date, row |-> Len(all_holdings)])
                 ELSE applied
            /\ twin' = IF twin.on /\ ~twin.failed /\ twin.events # <<>>
                       THEN InvokeAll(Route(Head(twin.events).type),
                                      [twin EXCEPT !.events = Tail(@), !.trace = NoTrace],
                                      Head(twin.events), sigs)
                       ELSE twin
    /\ UNCHANGED <<symbol_data, cursor, continue_backtest, stats>>

\* The strategy pushes any signals, MaxSignals in a run at most.
Dispatch(type) ==
    /\ \E sigs \in (IF type = "MARKET" THEN SignalSeqs(MaxSignals - signalled)
                    ELSE {<<>>}) :
          Handle(type, sigs)
    /\ UNCHANGED strategy

DispatchMarket == Dispatch("MARKET")

DispatchSignal == Dispatch("SIGNAL")

DispatchOrder == Dispatch("ORDER")

DispatchFill == Dispatch("FILL")

Next ==
    \/ AdvancePush
    \/ AdvanceExhausted
    \/ DispatchMarket
    \/ DispatchSignal
    \/ DispatchOrder
    \/ DispatchFill

Spec == Init /\ [][Next]_vars

(***************************************************************************)
(* Helpers of the properties                                               *)
(***************************************************************************)
Min(a, b) == IF a <= b THEN a ELSE b

\* floor(a / b) for b > 0.
FloorDiv(a, b) == a \div b

\* TRUE in the states a dispatch has just produced.
JustDispatched == dispatched.handlers # <<>> /\ nextId = dispatched.nextId

\* The fills applied after row t was appended and before row t + 1 was.
FillsAfterRow(t) == {i \in 1..Len(applied) : applied[i].row = t}

Notional(f) ==
    (IF f.direction = "BUY" THEN f.price * f.quantity ELSE -(f.price * f.quantity))
    + f.commission

SignedQuantity(f, s) ==
    IF f.symbol # s THEN 0
    ELSE IF f.direction = "BUY" THEN f.quantity ELSE -f.quantity

NotionalAfterRow(t) ==
    SumOver(FillsAfterRow(t), [i \in FillsAfterRow(t) |-> Notional(applied[i])])

QuantityAfterRow(t, s) ==
    SumOver(FillsAfterRow(t), [i \in FillsAfterRow(t) |-> SignedQuantity(applied[i], s)])

Rows == Len(all_holdings)

(***************************************************************************)
(* C1  Cash conservation: the cash of an equity-curve row is the cash of   *)
(* the row before it minus the signed notional plus commission of the      *)
(* fills applied between the two, and the current cash is the cash of the  *)
(* last row minus that of the fills applied since: nothing but a fill      *)
(* changes cash.                                                           *)
(***************************************************************************)
CashConservation ==
    /\ \A t \in 2..Rows :
          all_holdings[t].cash = all_holdings[t - 1].cash - NotionalAfterRow(t - 1)
    /\ current_holdings.cash = all_holdings[Rows].cash - NotionalAfterRow(Rows)

CashConservationWitness ==
    /\ Rows >= 3
    /\ FillsAfterRow(2) # {}
    /\ all_holdings[3].cash # all_holdings[2].cash
    /\ FillsAfterRow(3) # {}

(***************************************************************************)
(* C2  Position conservation: positions start at 0, the position of a row  *)
(* is the position of the row before it plus the signed quantities of the  *)
(* fills applied between the two, and the current position is the last     *)
(* row's plus those of the fills applied since.                            *)
(***************************************************************************)
PositionConservation ==
    \A s \in Symbols :
       /\ all_positions[1].pos[s] = 0
       /\ \A t \in 2..Len(all_positions) :
             all_positions[t].pos[s]
                = all_positions[t - 1].pos[s] + QuantityAfterRow(t - 1, s)
       /\ current_positions[s]
             = Last(all_positions).pos[s] + QuantityAfterRow(Len(all_positions), s)

PositionConservationWitness ==
    /\ Len(all_positions) >= 3
    /\ \E s \in Symbols : all_positions[3].pos[s] > 0
    /\ \E i \in FillsAfterRow(3) : applied[i].direction = "SELL"

(***************************************************************************)
(* C3  The feed is advanced only when the queue is empty; the queue holds  *)
(* events of the current date only, and the dates of the dispatched events *)
(* never go back.                                                          *)
(***************************************************************************)
QueueDrainedBeforeAdvance ==
    [][/\ cursor' # cursor => events = <<>>
       /\ \A i \in 1..Len(events') : events'[i].date = FeedDate'
       /\ dispatched'.event.date >= dispatched.event.date]_vars

QueueDrainedBeforeAdvanceWitness ==
    /\ calls["MARKET"] = 2
    /\ dispatched.event.type = "SIGNAL"
    /\ \E i \in 1..Len(applied) : applied[i].row = 2

(***************************************************************************)
(* C4  FIFO: the queue holds, in push order, exactly the events pushed     *)
(* after the last dispatched one, so that events are dispatched in the     *)
(* order in which they were pushed, whoever pushed them.                   *)
(***************************************************************************)
FifoOrder ==
    \A i \in 1..Len(events) : events[i].id = dispatched.event.id + i

FifoOrderWitness ==
    /\ Len(events) >= 2
    /\ events[1].type = "SIGNAL"
    /\ Last(events).type = "ORDER"

(***************************************************************************)
(* C5  No look-ahead: a window of n values holds the values of the last    *)
(* min(n, k) bars of the symbol dated on or before the feed date, oldest   *)
(* first, k being the number of such bars.                                 *)
(***************************************************************************)
Visible(s) ==
    LET OnOrBefore(b) == b.date <= FeedDate
    IN SelectSeq(symbol_data[s], OnOrBefore)

FieldOf(b, field) == IF field = "Close" THEN b.Close ELSE b.Volume

NoLookAhead ==
    \A s \in Symbols, field \in {"Close", "Volume"}, n \in 1..(MaxDate + 1) :
       LET v == Visible(s)
           k == Min(n, Len(v))
       IN get_latest_bars_values(s, field, n)
             = [i \in 1..k |-> FieldOf(v[Len(v) - k + i], field)]

NoLookAheadWitness ==
    /\ FeedDate = 1
    /\ \E s \in Symbols : cursor[s] = 1 /\ Len(symbol_data[s]) = 2
    /\ \E s \in Symbols : cursor[s] = 0 /\ Len(symbol_data[s]) = 1

(***************************************************************************)
(* C6  Insufficient cash: a BUY sized at more than the cash can pay is cut *)
(* to floor(cash / price) shares; if that is not at least one share no     *)
(* order is queued; cash is unchanged and no error is raised.              *)
(***************************************************************************)
OverCash ==
    /\ JustDispatched
    /\ dispatched.event.type = "SIGNAL"
    /\ trace.handled
    /\ trace.price # None /\ trace.price # 0
    /\ trace.sized > 0
    /\ trace.sized * trace.price > trace.cash

InsufficientCashClip ==
    OverCash =>
       /\ current_holdings.cash = trace.cash
       /\ pc # "failed"
       /\ IF FloorDiv(trace.cash, trace.price) >= 1
          THEN /\ dispatched.pushed = 1
               /\ Last(events).type = "ORDER"
               /\ Last(events).symbol = dispatched.event.symbol
               /\ Last(events).direction = "BUY"
               /\ Last(events).quantity = FloorDiv(trace.cash, trace.price)
          ELSE dispatched.pushed = 0

InsufficientCashClipWitness ==
    /\ OverCash
    /\ dispatched.pushed = 1
    /\ Last(events).quantity < trace.sized

InsufficientCashDropWitness ==
    /\ OverCash
    /\ FloorDiv(trace.cash, trace.price) = 0
    /\ dispatched.pushed = 0

(***************************************************************************)
(* C7  EXIT idempotence: an EXIT for a symbol whose position is 0 queues   *)
(* no order and leaves position, cash and the rest of the queue as they    *)
(* were.                                                                   *)
(***************************************************************************)
FlatExit ==
    /\ JustDispatched
    /\ dispatched.event.type = "SIGNAL"
    /\ dispatched.event.signal_type = "EXIT"
    /\ trace.handled
    /\ trace.position = 0

ExitIdempotent ==
    FlatExit =>
       /\ dispatched.pushed = 0
       /\ current_positions[dispatched.event.symbol] = 0
       /\ current_holdings.cash = trace.cash
       /\ pc # "failed"

ExitIdempotentWitness ==
    /\ FlatExit
    /\ trace.price # None
    /\ calls["update_signal"] >= 2
    /\ calls["update_fill"] = 0

(***************************************************************************)
(* C8 as stated  Mark-to-market appends one row per MarketEvent, and only after the  *)
(* signals, orders and fills of that date have been drained: once the      *)
(* queue is drained the last row holds the cash and the positions that     *)
(* result from every fill of its date.                                     *)
(***************************************************************************)
OneRowPerMarketEvent == Rows = 1 + calls["MARKET"]

AllDates == UNION {{symbol_data[s][i].date : i \in 1..Len(symbol_data[s])} : s \in Symbols}

RowOfDate(d) == 1 + Cardinality({x \in AllDates : x <= d})

FillsBeforeRow(t) == {i \in 1..Len(applied) : RowOfDate(applied[i].date) < t}

OrderDispatched == JustDispatched /\ dispatched.event.type = "ORDER"

OrderYieldsOneFill ==
    OrderDispatched =>
       /\ dispatched.pushed = 1
       /\ Last(events).type = "FILL"
       /\ Last(events).symbol = dispatched.event.symbol
       /\ Last(events).direction = dispatched.event.direction
       /\ Last(events).quantity = dispatched.event.quantity
       /\ pc # "failed"

OrderYieldsOneFillWitness ==
    /\ OrderDispatched
    /\ dispatched.event.quantity >= 2
    /\ dispatched.event.direction = "SELL"

(***************************************************************************)
(* C10  Every popped event goes to the handlers of its tag and to no       *)
(* other: a MarketEvent to the strategy and then to mark-to-market, a      *)
(* SignalEvent to update_signal, an OrderEvent to execute_order, a         *)
(* FillEvent to update_fill; the strategy has been called once per         *)
(* MarketEvent popped.                                                     *)
(***************************************************************************)
DispatchByTag ==
    /\ dispatched.event.type = "MARKET" =>
          dispatched.handlers = <<"calculate_signals", "update_timeindex">>
    /\ dispatched.event.type = "SIGNAL" => dispatched.handlers = <<"update_signal">>
    /\ dispatched.event.type = "ORDER" => dispatched.handlers = <<"execute_order">>
    /\ dispatched.event.type = "FILL" => dispatched.handlers = <<"update_fill">>
    /\ calls["calculate_signals"] = calls["MARKET"]
    /\ calls["update_timeindex"] = calls["MARKET"]
    /\ calls["update_signal"] = calls["SIGNAL"]
    /\ calls["execute_order"] = calls["ORDER"]
    /\ calls["update_fill"] = calls["FILL"]

DispatchByTagWitness ==
    /\ calls["MARKET"] >= 2
    /\ calls["FILL"] >= 1
    /\ dispatched.event.type = "FILL"

(***************************************************************************)
(* Runs over degenerate prices                                             *)
(***************************************************************************)
\* The runs where the close of A, after a first bar at 3.0, collapses, is
\* zero or is negative; A has a bar on every date, B any of its series.
EdgeInit ==
    /\ \E path \in EdgePaths, ds \in DateSets :
          symbol_data = [s \in Symbols |->
                           SeriesOn(s, path, IF s = "A" THEN Dates ELSE ds)]
    /\ cursor = [s \in Symbols |-> 0]
    /\ continue_backtest = TRUE
    /\ events = <<>>
    /\ current_positions = [s \in Symbols |-> 0]
    /\ \E capital \in InitialCapitals :
          /\ current_holdings = construct_current_holdings(capital)
          /\ all_holdings = construct_all_holdings(capital)
    /\ all_positions = construct_all_positions
    /\ trade_history = <<>>
    /\ pc = "advance"
    /\ nextId = 0
    /\ dispatched = [event |-> Event(""), handlers |-> <<>>, pushed |-> 0, nextId |-> 0,
                     failed |-> FALSE]
    /\ calls = [h \in Handlers \cup EventTypes |-> 0]
    /\ applied = <<>>
    /\ signalled = 0
    /\ trace = NoTrace
    /\ twin = NoTwin
    /\ stats = NoStats
    /\ strategy = NoStrategy

EdgeSpec == EdgeInit /\ [][Next]_vars

(***************************************************************************)
(* C12  An exception raised while an event is dispatched ends the run: no  *)
(* step is taken from the state the failed dispatch left, so no queued     *)
(* event is dispatched, the feed does not advance, and position, cash and  *)
(* the equity curve stay as they are.                                      *)
(***************************************************************************)
Raised == dispatched.failed

ExceptionIsFatal == [][~Raised]_vars

\* The report line of update_signal divides by an equity of 0 with the order
\* already queued: the order is never dispatched.
ExceptionIsFatalWitness ==
    /\ Raised
    /\ pc = "failed"
    /\ dispatched.event.type = "SIGNAL"
    /\ events # <<>>
    /\ Head(events).type = "ORDER"
    /\ current_positions[dispatched.event.symbol] > 0

(***************************************************************************)
(* C13  A signal for a symbol whose current price is zero, negative or     *)
(* missing is dropped: no order is queued, position and cash are as they   *)
(* were, and the run goes on.                                              *)
(***************************************************************************)
NoValidPrice ==
    /\ JustDispatched
    /\ dispatched.event.type = "SIGNAL"
    /\ trace.handled
    /\ trace.price # NaN
    /\ (trace.price = None \/ trace.price <= 0)

InvalidSignalDropped ==
    NoValidPrice =>
       /\ dispatched.pushed = 0
       /\ current_holdings.cash = trace.cash
       /\ current_positions[dispatched.event.symbol] = trace.position
       /\ pc # "failed"

(***************************************************************************)
(* C14  The strength of a LONG/ADJUST signal is clamped to the range       *)
(* [0, max_position_fraction] before the target value is computed: the     *)
(* shares sized are those of the clamped weight.                           *)
(***************************************************************************)
\* The 20% cap of the scenario.
max_position_fraction == 200

clamp(x, lo, hi) == IF x < lo THEN lo ELSE IF x > hi THEN hi ELSE x

StrengthClamped ==
    (/\ JustDispatched
     /\ dispatched.event.type = "SIGNAL"
     /\ dispatched.event.signal_type # "EXIT"
     /\ trace.handled
     /\ trace.price # None /\ trace.price # 0)
    => trace.sized =
         quantity_to_trade(trace.equity,
                           clamp(dispatched.event.strength, 0, max_position_fraction),
                           trace.position * trace.price, trace.price)

(***************************************************************************)
(* C15  At mark-to-market a symbol whose close is unavailable on the       *)
(* current date, by a gap or a halt, is valued at its last known value and *)
(* not at zero: with a non-zero position the row carries the position at   *)
(* the symbol's last known close, so the total does not drop by it.        *)
(***************************************************************************)
\* The bars of s seen so far that have a close.
Priced(s) == {i \in 1..cursor[s] : symbol_data[s][i].Close # NaN}

LastKnownClose(s) ==
    symbol_data[s][CHOOSE i \in Priced(s) : \A j \in Priced(s) : i >= j].Close

CloseUnavailable(s) ==
    \/ get_latest_bar_datetime(s) # FeedDate
    \/ get_latest_bar_value(s, "Close") \in {None, NaN}

Gapped(s) ==
    /\ JustDispatched
    /\ dispatched.event.type = "MARKET"
    /\ CloseUnavailable(s)
    /\ current_positions[s] # 0
    /\ Priced(s) # {}

GapCarriesValue ==
    \A s \in Symbols :
       Gapped(s) =>
          /\ Last(all_holdings).val[s] = current_positions[s] * LastKnownClose(s)
          /\ Last(all_holdings).total =
                Last(all_holdings).cash
                + SumOver(Symbols, [x \in Symbols |->
                      IF Priced(x) = {} THEN 0
                      ELSE current_positions[x] * LastKnownClose(x)])

(***************************************************************************)
(* One order or one fill handed to its handler                             *)
(***************************************************************************)
OrderQuantities == {1, 199, 200, 201, 400}
FillQuantities == {1, 2}
FillPrices == {None, 2500, 3500}
Directions == {"BUY", "SELL"}

\* The events handed in: any order, and any fill, with or without a price
\* of its own.
HandlerInputs ==
    {OrderEvent(s, q, d) : s \in Symbols, q \in OrderQuantities, d \in Directions}
    \cup
    UNION {{FillEvent(s, q, d, p, calculate_commission(q, p)) :
               s \in Symbols, q \in FillQuantities} :
           d \in Directions, p \in FillPrices}

\* A fresh portfolio on the first date of a one-date feed, the MarketEvent of
\* the date handled with no signal, and one event handed in.
HandlerInit ==
    /\ \E path \in ClosePaths :
          symbol_data = [s \in Symbols |-> SeriesOn(s, path, {1})]
    /\ cursor = [s \in Symbols |-> 1]
    /\ continue_backtest = TRUE
    /\ \E e \in HandlerInputs : events = <<[e EXCEPT !.id = 2, !.date = 1, !.timestamp = RunClocks[1] + 2]>>
    /\ current_positions = [s \in Symbols |-> 0]
    /\ \E capital \in InitialCapitals :
          /\ current_holdings = construct_current_holdings(capital)
          /\ all_holdings = construct_all_holdings(capital)
                            \o <<[construct_all_holdings(capital)[1]
                                    EXCEPT !.datetime = 1]>>
    /\ all_positions = construct_all_positions
                       \o <<[construct_all_positions[1] EXCEPT !.datetime = 1]>>
    /\ trade_history = <<>>
    /\ pc = "drain"
    /\ nextId = 2
    /\ dispatched = [event |-> Event(""), handlers |-> <<>>, pushed |-> 0, nextId |-> 0,
                     failed |-> FALSE]
    /\ calls = [h \in Handlers \cup EventTypes |->
                  IF h \in {"MARKET", "calculate_signals", "update_timeindex"}
                  THEN 1 ELSE 0]
    /\ applied = <<>>
    /\ signalled = 0
    /\ trace = NoTrace
    /\ twin = NoTwin
    /\ stats = NoStats
    /\ strategy = NoStrategy

HandlerNext ==
    \/ DispatchOrder
    \/ DispatchFill
    \/ AdvanceExhausted

HandlerSpec == HandlerInit /\ [][HandlerNext]_vars

(***************************************************************************)
(* C16  A fill is priced at the symbol's current bar close when the        *)
(* FillEvent carries no price and at the price it carries otherwise, for   *)
(* the cash update and for the trade-audit record alike.                   *)
(***************************************************************************)
FillPriceOf(e) ==
    IF e.fill_cost = None THEN get_latest_bar_value(e.symbol, "Close")
    ELSE e.fill_cost

FillPriceOverride ==
    (/\ JustDispatched
     /\ dispatched.event.type = "FILL"
     /\ ~dispatched.failed
     /\ Len(applied) = 1)
    => LET e == dispatched.event
           cost == fill_dir(e.direction) * FillPriceOf(e) * e.quantity
       IN /\ Last(trade_history).price = FillPriceOf(e)
          /\ Last(trade_history).cost = cost
          /\ current_holdings.cash = Last(all_holdings).cash - (cost + e.commission)

(***************************************************************************)
(* C17  The commission of every fill is max(min_commission,                *)
(* per_share_rate * quantity) with min_commission = 1.0 and per_share_rate *)
(* = 0.005: it depends on the quantity only, is never below the minimum    *)
(* and never decreases as the quantity grows.                              *)
(***************************************************************************)
min_commission == 1000
per_share_rate == 5

CommissionOf(q) == Max(min_commission, per_share_rate * q)

CommissionRule ==
    /\ (JustDispatched /\ dispatched.event.type = "ORDER") =>
          /\ Last(events).type = "FILL"
          /\ Last(events).commission = CommissionOf(dispatched.event.quantity)
          /\ Last(events).commission >= min_commission
    /\ (JustDispatched /\ dispatched.event.type = "FILL" /\ ~dispatched.failed) =>
          /\ Last(trade_history).commission = CommissionOf(dispatched.event.quantity)
          /\ current_holdings.commission
               = Last(all_holdings).commission + CommissionOf(dispatched.event.quantity)
    /\ \A q1, q2 \in OrderQuantities, p1, p2 \in FillPrices :
          /\ q1 = q2 => calculate_commission(q1, p1) = calculate_commission(q2, p2)
          /\ q1 <= q2 => calculate_commission(q1, p1) <= calculate_commission(q2, p2)

\* An order above 200 shares, where the per-share rate exceeds the minimum,
\* has been filled.
CommissionRuleWitness ==
    /\ JustDispatched
    /\ dispatched.event.type = "FILL"
    /\ dispatched.event.quantity > 200
    /\ Last(trade_history).commission > min_commission
    /\ current_holdings.commission = Last(trade_history).commission

(***************************************************************************)
(* C19  Each advance moves the feed to the earliest date not yet seen over *)
(* all symbols and pushes exactly one MarketEvent; exactly the symbols     *)
(* with a bar on that date move their cursor, by one bar, the others keep  *)
(* their last bar; exhaustion is reported only with every series consumed, *)
(* and then no MarketEvent is pushed.  Nothing else moves a cursor.        *)
(***************************************************************************)
HasBarOn(s, d) == \E i \in 1..Len(symbol_data[s]) : symbol_data[s][i].date = d

AdvanceStep ==
    LET seen == [s \in Symbols |-> cursor[s]]
        left == {d \in Dates : \E s \in Symbols :
                    \E i \in (cursor[s] + 1)..Len(symbol_data[s]) :
                        symbol_data[s][i].date = d}
    IN IF left # {}
       THEN LET d == CHOOSE x \in left : \A y \in left : x <= y
            IN /\ \A s \in Symbols :
                    IF HasBarOn(s, d)
                    THEN /\ cursor'[s] = seen[s] + 1
                         /\ symbol_data[s][cursor'[s]].date = d
                    ELSE cursor'[s] = seen[s]
               /\ Len(events') = Len(events) + 1
               /\ Last(events').type = "MARKET"
               /\ \A i \in 1..Len(events) : events'[i] = events[i]
               /\ continue_backtest' = continue_backtest
       ELSE /\ cursor' = cursor
            /\ events' = events
            /\ continue_backtest' = FALSE

AdvanceSemantics ==
    [][/\ pc = "advance" => AdvanceStep
       /\ pc # "advance" => cursor' = cursor /\ continue_backtest' = continue_backtest
       /\ continue_backtest]_vars

\* A has moved twice and B, which has no bar on date 1, once: both stand on
\* date 2, at different rows.
AdvanceSemanticsWitness ==
    /\ cursor["A"] = 2
    /\ cursor["B"] = 1
    /\ get_latest_bar_datetime("A") = 2
    /\ get_latest_bar_datetime("B") = 2
    /\ events # <<>>
    /\ Last(events).type = "MARKET"
    /\ calls["MARKET"] = 1

(***************************************************************************)
(* A run and its replay                                                    *)
(***************************************************************************)
\* The run is replayed along, step by step, on the same bars, with the same
\* strategy and capital, under a wall clock that reads otherwise.  Symbol A
\* has a bar on every date, B any of the series of the feed.
TwinInit ==
    /\ \E path \in ClosePaths, ds \in DateSets :
          symbol_data = [s \in Symbols |->
                           SeriesOn(s, path, IF s = "A" THEN Dates ELSE ds)]
    /\ cursor = [s \in Symbols |-> 0]
    /\ continue_backtest = TRUE
    /\ events = <<>>
    /\ current_positions = [s \in Symbols |-> 0]
    /\ \E capital \in InitialCapitals :
          /\ current_holdings = construct_current_holdings(capital)
          /\ all_holdings = construct_all_holdings(capital)
          /\ twin = [on |-> TRUE, clock |-> RunClocks[2], events |-> <<>>,
                     current_positions |-> [s \in Symbols |-> 0],
                     current_holdings |-> construct_current_holdings(capital),
                     all_positions |-> construct_all_positions,
                     all_holdings |-> construct_all_holdings(capital),
                     trade_history |-> <<>>, nextId |-> 0, failed |-> FALSE,
                     trace |-> NoTrace]
    /\ all_positions = construct_all_positions
    /\ trade_history = <<>>
    /\ pc = "advance"
    /\ nextId = 0
    /\ dispatched = [event |-> Event(""), handlers |-> <<>>, pushed |-> 0, nextId |-> 0,
                     failed |-> FALSE]
    /\ calls = [h \in Handlers \cup EventTypes |-> 0]
    /\ applied = <<>>
    /\ signalled = 0
    /\ trace = NoTrace
    /\ stats = NoStats
    /\ strategy = NoStrategy

TwinSpec == TwinInit /\ [][Next]_vars

(***************************************************************************)
(* C18  Determinism: a run and its replay from the same bars, strategy and *)
(* configuration go through the same sequence of events and hold the same  *)
(* equity curve, positions and trade-audit list; no wall-clock reading     *)
(* shows in them.                                                          *)
(***************************************************************************)
\* An event without its wall-clock reading.
Untimed(ev) == [ev EXCEPT !.timestamp = 0]

Totals == {-2000, 1000, 3000, 6000}

\* The totals of an equity curve: the row of the initial capital and up to
\* MaxRows - 1 rows of mark-to-market.
Curves == UNION {[1..n -> Totals] : n \in 1..MaxRows}

\* A drawdown is the quotient num / den of two amounts, or NaN.
Quotient(a, b) == [nan |-> FALSE, num |-> a, den |-> b]

NaNQuotient == [nan |-> TRUE, num |-> 0, den |-> 1]

\* Lines 289-305.  hwm starts at 0 and the loop at the second row, so the
\* first entry of drawdown stays NaN; Series.max() skips NaN entries and is
\* NaN when there is no other.
create_drawdowns(pnl) ==
    LET n == Len(pnl)
        hwm[t \in 1..n] == IF t = 1 THEN 0 ELSE Max(hwm[t - 1], pnl[t])
        drawdown == [t \in 2..n |->
                       IF hwm[t] > 0 THEN Quotient(hwm[t] - pnl[t], hwm[t])
                       ELSE Quotient(0, 1)]
        duration[t \in 1..n] ==
            IF t = 1 THEN 0
            ELSE IF drawdown[t].num = 0 THEN 0 ELSE duration[t - 1] + 1
        worst == CHOOSE t \in 2..n : \A u \in 2..n :
                    drawdown[u].num * drawdown[t].den
                       <= drawdown[t].num * drawdown[u].den
        longest == CHOOSE t \in 1..n : \A u \in 1..n : duration[u] <= duration[t]
    IN [max_dd |-> IF n < 2 THEN NaNQuotient ELSE drawdown[worst],
        dd_duration |-> duration[longest]]

\* Lines 234-259, for the drawdown figures.
output_summary_stats(curve) ==
    LET pnl == [i \in 1..Len(curve) |-> curve[i].total]
        dd == create_drawdowns(pnl)
    IN [computed |-> TRUE, max_dd |-> dd.max_dd, dd_duration |-> dd.dd_duration]

\* A finished run that stayed in cash, its equity curve being any of Curves.
StatsInit ==
    /\ \E c \in Curves :
          /\ symbol_data = [s \in Symbols |-> SeriesOn(s, "rise", 1..(Len(c) - 1))]
          /\ cursor = [s \in Symbols |-> Len(c) - 1]
          /\ all_holdings = [i \in 1..Len(c) |->
                               [datetime |-> i - 1, val |-> [s \in Symbols |-> 0],
                                cash |-> c[i], commission |-> 0, total |-> c[i]]]
          /\ all_positions = [i \in 1..Len(c) |->
                                [datetime |-> i - 1, pos |-> [s \in Symbols |-> 0]]]
          /\ current_holdings = construct_current_holdings(c[Len(c)])
          /\ nextId = Len(c) - 1
          /\ calls = [h \in Handlers \cup EventTypes |->
                        IF h \in {"MARKET", "calculate_signals", "update_timeindex"}
                        THEN Len(c) - 1 ELSE 0]
    /\ continue_backtest = FALSE
    /\ events = <<>>
    /\ current_positions = [s \in Symbols |-> 0]
    /\ trade_history = <<>>
    /\ pc = "done"
    /\ dispatched = [event |-> Event(""), handlers |-> <<>>, pushed |-> 0, nextId |-> 0,
                     failed |-> FALSE]
    /\ applied = <<>>
    /\ signalled = 0
    /\ trace = NoTrace
    /\ twin = NoTwin
    /\ stats = NoStats
    /\ strategy = NoStrategy

\* The statistics are computed from the equity curve once the run is over.
OutputSummaryStats ==
    /\ pc = "done"
    /\ ~stats.computed
    /\ stats' = output_summary_stats(all_holdings)
    /\ UNCHANGED <<symbol_data, cursor, continue_backtest, events, current_positions,
                   current_holdings, all_positions, all_holdings, trade_history, pc,
                   nextId, dispatched, applied, signalled, calls, trace, twin,
                   strategy>>

StatsNext == OutputSummaryStats

StatsSpec == StatsInit /\ [][StatsNext]_vars

(***************************************************************************)
(* C20  Drawdown bound: for every equity curve whose totals are all        *)
(* strictly positive the computed Max Drawdown is a number between 0 and   *)
(* 1, both included.                                                       *)
(***************************************************************************)
PositiveCurve == \A i \in 1..Len(all_holdings) : all_holdings[i].total > 0

DrawdownBound ==
    (stats.computed /\ PositiveCurve) =>
       /\ ~stats.max_dd.nan
       /\ 0 <= stats.max_dd.num
       /\ stats.max_dd.num <= stats.max_dd.den

(***************************************************************************)
(* C21  Cash is never negative: no BUY, once filled and charged its        *)
(* commission, and no group of BUY orders sized during the same date-step  *)
(* before any of their fills is applied, drives cash below zero.           *)
(***************************************************************************)
CashNeverNegative == current_holdings.cash >= 0

(***************************************************************************)
(* A run taken up after its first date                                     *)
(***************************************************************************)
\* The drain of a queue to its end, no signal being pushed any more.
RECURSIVE Drained(_)
Drained(w) ==
    IF w.events = <<>> \/ w.failed THEN w
    ELSE Drained(InvokeAll(Route(Head(w.events).type),
                           [w EXCEPT !.events = Tail(@), !.trace = NoTrace],
                           Head(w.events), <<>>))

\* The run stands after the drain of date 1, on which the strategy pushed
\* one LONG for A: the MarketEvent of date 1 and all it caused have been
\* handled by the handlers above.  The history variables (calls, applied,
\* signalled, dispatched) count from this state on.
HeldInit ==
    /\ \E path \in ClosePaths, ds \in [Symbols -> DateSets] :
          /\ 1 \in ds["A"]
          /\ symbol_data = [s \in Symbols |-> SeriesOn(s, path, ds[s])]
    /\ cursor = [s \in Symbols |->
                   IF symbol_data[s] # <<>> /\ symbol_data[s][1].date = 1
                   THEN 1 ELSE 0]
    /\ continue_backtest = TRUE
    /\ \E capital \in InitialCapitals, str \in Strengths :
          LET fresh == [events |-> <<>>,
                        current_positions |-> [s \in Symbols |-> 0],
                        current_holdings |-> construct_current_holdings(capital),
                        all_positions |-> construct_all_positions,
                        all_holdings |-> construct_all_holdings(capital),
                        trade_history |-> <<>>, nextId |-> 1, failed |-> FALSE,
                        trace |-> NoTrace, clock |-> RunClocks[1]]
              market == [MarketEvent EXCEPT !.id = 1, !.date = 1,
                                            !.timestamp = RunClocks[1] + 1]
              w == Drained(InvokeAll(Route("MARKET"), fresh, market,
                                     <<SignalEvent("A", NoDate, "LONG", str)>>))
          IN /\ ~w.failed
             /\ events = w.events
             /\ current_positions = w.current_positions
             /\ current_holdings = w.current_holdings
             /\ all_positions = w.all_positions
             /\ all_holdings = w.all_holdings
             /\ trade_history = w.trade_history
             /\ nextId = w.nextId
    /\ pc = "advance"
    /\ dispatched = [event |-> Event(""), handlers |-> <<>>, pushed |-> 0, nextId |-> 0,
                     failed |-> FALSE]
    /\ calls = [h \in Handlers \cup EventTypes |-> 0]
    /\ applied = <<>>
    /\ signalled = 0
    /\ trace = NoTrace
    /\ twin = NoTwin
    /\ stats = NoStats
    /\ strategy = NoStrategy

HeldSpec == HeldInit /\ [][Next]_vars

(***************************************************************************)
(* C22  No symbol's position is ever negative: a SELL is capped at the     *)
(* quantity held, so the portfolio never goes short, also when several     *)
(* signals for the same symbol are handled before the fill of the first    *)
(* resulting order is applied.                                             *)
(***************************************************************************)
PositionNeverNegative == \A s \in Symbols : current_positions[s] >= 0

(***************************************************************************)
(* C23  Handling an EXIT signal for a symbol with a non-zero position and  *)
(* a valid price queues exactly one OrderEvent, whose quantity is the      *)
(* absolute value of the whole position and whose direction is opposite    *)
(* to the position's sign (SELL for a long position), so that the fill of  *)
(* that order brings the position to 0.                                    *)
(***************************************************************************)
HeldExit ==
    /\ JustDispatched
    /\ dispatched.event.type = "SIGNAL"
    /\ dispatched.event.signal_type = "EXIT"
    /\ trace.handled
    /\ trace.position # 0
    /\ trace.price > 0

Rebalanced ==
    /\ JustDispatched
    /\ dispatched.event.type = "SIGNAL"
    /\ dispatched.event.signal_type # "EXIT"
    /\ trace.handled
    /\ trace.price > 0

delta_shares ==
    FloorDiv(trace.equity * dispatched.event.strength
                - 1000 * trace.position * trace.price,
             1000 * trace.price)

FloorSizing ==
    Rebalanced =>
       /\ trace.sized = delta_shares
       /\ dispatched.pushed = 1 => delta_shares # 0

(***************************************************************************)
(* C25  Max Drawdown is the maximum over all equity-curve rows t of        *)
(* (peak_t - total_t) / peak_t, peak_t being the running maximum of total  *)
(* over the rows up to and including t, the initial-capital row included:  *)
(* a curve that falls below its first row's total and never recovers has   *)
(* a Max Drawdown greater than 0.                                          *)
(***************************************************************************)
RECURSIVE peak(_)
peak(t) ==
    IF t = 1 THEN all_holdings[1].total
    ELSE Max(peak(t - 1), all_holdings[t].total)

RowBalanced(row) == row.total = row.cash + SumOver(Symbols, row.val)

\* The mark-to-market has just run: its row is the last one.
JustMarked ==
    /\ JustDispatched
    /\ dispatched.event.type = "MARKET"
    /\ pc # "failed"

RowsBalanced ==
    /\ \A t \in 1..Rows : RowBalanced(all_holdings[t])
    /\ JustMarked =>
          /\ Last(all_holdings).cash = current_holdings.cash
          /\ Last(all_holdings).commission = current_holdings.commission
          /\ Last(all_holdings).total = current_holdings.total

RowsAppendOnly ==
    /\ Len(all_holdings') >= Len(all_holdings)
    /\ Len(all_holdings') <= Len(all_holdings) + 1
    /\ \A t \in 1..Len(all_holdings) : all_holdings'[t] = all_holdings[t]

EquityRowIdentity == []RowsBalanced /\ [][RowsAppendOnly]_vars

EquityRowIdentityWitness ==
    /\ JustMarked
    /\ Rows = 3
    /\ Last(all_holdings).val["A"] > 0
    /\ Last(all_holdings).commission > 0
    /\ Last(all_holdings).cash # all_holdings[1].cash
    /\ RowBalanced(Last(all_holdings))

(***************************************************************************)
(* C27  Every fill applied by update_fill appends exactly one trade-audit  *)
(* record (date, symbol, direction, quantity, price, commission) and adds  *)
(* its commission to the cumulative commission: the number of audit        *)
(* records equals the number of fills applied, the cumulative commission   *)
(* equals the sum of the commissions of the audit records, and no          *)
(* portfolio decision reads the audit list.                                *)
(***************************************************************************)
AuditOf(i) ==
    LET f == applied[i]
        r == trade_history[i]
    IN /\ r.symbol = f.symbol
       /\ r.action = f.direction
       /\ r.quantity = f.quantity
       /\ r.price = f.price
       /\ r.commission = f.commission
       /\ r.datetime # NoDate
       /\ r.datetime <= f.date

\* What the handlers of the next event do to the portfolio, the audit list
\* set aside.
Decided(w) ==
    LET event == Head(events)
        r == InvokeAll(Route(event.type), [w EXCEPT !.events = Tail(@)], event, <<>>)
    IN [r EXCEPT !.trade_history = <<>>]

AuditNotRead ==
    (events # <<>> /\ trade_history # <<>>) =>
       Decided(World) = Decided([World EXCEPT !.trade_history = <<>>])

AuditComplete ==
    /\ Len(trade_history) = Len(applied)
    /\ \A i \in 1..Len(trade_history) : AuditOf(i)
    /\ current_holdings.commission =
          SumOver(1..Len(trade_history),
                  [i \in 1..Len(trade_history) |-> trade_history[i].commission])
    /\ AuditNotRead

AuditCompleteWitness ==
    /\ JustDispatched
    /\ dispatched.event.type = "FILL"
    /\ Len(trade_history) = 2
    /\ trade_history[1].action = "BUY"
    /\ trade_history[2].action = "SELL"
    /\ current_holdings.commission = 2 * min_commission

(***************************************************************************)
(* C28  Applying a fill priced at the symbol's current close changes the   *)
(* portfolio's marked equity (cash + sum over symbols of position *        *)
(* current close) by exactly minus the fill's commission: a trade moves    *)
(* value between cash and position without creating or destroying any,    *)
(* for BUY and SELL alike.                                                 *)
(***************************************************************************)
MarkedEquity ==
    current_holdings.cash
    + SumOver(Symbols, [s \in Symbols |->
         IF get_latest_bar_value(s, "Close") = None THEN 0
         ELSE current_positions[s] * get_latest_bar_value(s, "Close")])

\* The step that dispatches a fill.
FillStep ==
    /\ pc = "drain"
    /\ events # <<>>
    /\ Head(events).type = "FILL"
    /\ Len(applied') = Len(applied) + 1

FillConservesEquity ==
    [][FillStep => MarkedEquity' = MarkedEquity - Head(events).commission]_vars

FillConservesEquityWitness ==
    /\ JustDispatched
    /\ dispatched.event.type = "FILL"
    /\ dispatched.event.direction = "SELL"
    /\ dispatched.event.quantity >= 2
    /\ Len(applied) = 2
    /\ applied[1].direction = "BUY"
    /\ applied[1].price # applied[2].price
    /\ MarkedEquity = current_holdings.cash

(***************************************************************************)
(* C29  Each SignalEvent handled by update_signal queues at most one       *)
(* OrderEvent, every queued OrderEvent has quantity >= 1 and direction BUY *)
(* or SELL, and whenever the queue is empty the number of fills applied    *)
(* equals the number of orders queued, which is at most the number of      *)
(* signals handled.                                                        *)
(***************************************************************************)
Pending(type) == {i \in 1..Len(events) : events[i].type = type}

\* The orders queued so far: those dispatched and those still in the queue.
OrdersQueued == calls["ORDER"] + Cardinality(Pending("ORDER"))

OrdersWellFormed ==
    /\ \A i \in Pending("ORDER") :
          /\ events[i].quantity >= 1
          /\ events[i].direction \in {"BUY", "SELL"}
    /\ (JustDispatched /\ dispatched.event.type = "SIGNAL") =>
          /\ dispatched.pushed <= 1
          /\ dispatched.pushed = 1 => Last(events).type = "ORDER"
    /\ OrdersQueued <= calls["update_signal"]
    /\ events = <<>> =>
          /\ Len(applied) = OrdersQueued
          /\ calls["update_fill"] = OrdersQueued

OrdersWellFormedWitness ==
    /\ events = <<>>
    /\ calls["update_signal"] = 2
    /\ OrdersQueued = 1
    /\ Len(applied) = 1
    /\ applied[1].quantity >= 1
    /\ trace.handled

(***************************************************************************)
(* The provided strategies: MovingAverageCrossStrategy and RSIStrategy     *)
(***************************************************************************)
\* The windows and thresholds the strategies are constructed with; the
\* windows are the smallest that tell a short from a long average.
short_window == 1
long_window == 2
period == 1
buy_threshold == 30
sell_threshold == 70

\* RSIStrategy asks for period + 10 bars.
rsi_buffer == 10

RECURSIVE SeqSum(_)
SeqSum(q) == IF q = <<>> THEN 0 ELSE Head(q) + SeqSum(Tail(q))

HasNaN(q) == \E i \in 1..Len(q) : q[i] = NaN

LastN(q, n) == SubSeq(q, Len(q) - n + 1, Len(q))

\* std_strategies.py:20-38, for one symbol: "LONG", "EXIT" or "" (no signal).
\* np.mean of a window holding a NaN is NaN, and compares False.
MovingAverageCross(s, flag) ==
    LET bars == get_latest_bars_values(s, "Close", long_window)
        short_sum == SeqSum(LastN(bars, short_window))
        long_sum == SeqSum(bars)
    IN IF Len(bars) < long_window \/ HasNaN(bars) THEN ""
       ELSE IF short_sum * long_window > long_sum * short_window /\ flag = "OUT"
       THEN "LONG"
       ELSE IF short_sum * long_window < long_sum * short_window /\ flag = "LONG"
       THEN "EXIT"
       ELSE ""

\* _calculate_rsi_simple (std_strategies.py:80-91) on the window: with
\* rs = avg_gain / avg_loss, or 0 when there is no loss, rsi = 100 - 100 / (1 + rs)
\* is below a threshold T iff gain * (100 - T) < T * loss, or there is no
\* loss; np.where leaves a NaN difference out of the gains and the losses.
RSI(s, flag) ==
    LET bars == get_latest_bars_values(s, "Close", period + rsi_buffer)
        deltas == [i \in 1..(Len(bars) - 1) |->
                     IF bars[i] = NaN \/ bars[i + 1] = NaN THEN 0
                     ELSE bars[i + 1] - bars[i]]
        gain == SeqSum([i \in 1..Len(deltas) |-> Max(deltas[i], 0)])
        loss == SeqSum([i \in 1..Len(deltas) |-> Max(-deltas[i], 0)])
        below == loss = 0 \/ gain * (100 - buy_threshold) < buy_threshold * loss
        above == loss # 0 /\ gain * (100 - sell_threshold) > sell_threshold * loss
    IN IF Len(bars) < period + 1 THEN ""
       ELSE IF below /\ flag = "OUT" THEN "LONG"
       ELSE IF above /\ flag = "LONG" THEN "EXIT"
       ELSE ""

Decision(s) ==
    IF strategy.name = "MovingAverageCrossStrategy"
    THEN MovingAverageCross(s, strategy.bought[s])
    ELSE RSI(s, strategy.bought[s])

IsSignal(e) == e.type = "SIGNAL"

\* The signals of one call of calculate_signals, in the order of symbol_list.
StrategySignals ==
    SelectSeq([i \in 1..Len(symbol_list) |->
                 IF Decision(symbol_list[i]) = "" THEN Event("")
                 ELSE SignalEvent(symbol_list[i], NoDate, Decision(symbol_list[i]), 1000)],
              IsSignal)

\* The closes of A in the runs of the strategies; B stays at 5.0.
StrategyCloses == {0, 2000, 3000}

\* The feed has long_window - 1 dates more, the strategy holding back until
\* it has long_window bars.
StrategyDates == 1..(MaxDate + long_window - 1)

StrategyInit ==
    /\ \E closes \in [StrategyDates -> StrategyCloses] :
          symbol_data = [s \in Symbols |->
                           [d \in StrategyDates |->
                              Bar(d, IF s = "A" THEN closes[d] ELSE CloseOn(s, "rise", d))]]
    /\ cursor = [s \in Symbols |-> 0]
    /\ continue_backtest = TRUE
    /\ events = <<>>
    /\ current_positions = [s \in Symbols |-> 0]
    /\ \E capital \in InitialCapitals :
          /\ current_holdings = construct_current_holdings(capital)
          /\ all_holdings = construct_all_holdings(capital)
    /\ all_positions = construct_all_positions
    /\ trade_history = <<>>
    /\ pc = "advance"
    /\ nextId = 0
    /\ dispatched = [event |-> Event(""), handlers |-> <<>>, pushed |-> 0, nextId |-> 0,
                     failed |-> FALSE]
    /\ calls = [h \in Handlers \cup EventTypes |-> 0]
    /\ applied = <<>>
    /\ signalled = 0
    /\ trace = NoTrace
    /\ twin = NoTwin
    /\ stats = NoStats
    /\ \E name \in {"MovingAverageCrossStrategy", "RSIStrategy"} :
          strategy = [name |-> name, bought |-> [s \in Symbols |-> "OUT"]]

\* A MarketEvent is dispatched to the strategy object: it pushes the signals
\* it decides on and sets its flags as it pushes them.
StrategyMarket ==
    /\ Handle("MARKET", StrategySignals)
    /\ strategy' = [strategy EXCEPT !.bought =
                      [s \in Symbols |->
                         IF Decision(s) = "LONG" THEN "LONG"
                         ELSE IF Decision(s) = "EXIT" THEN "OUT"
                         ELSE @[s]]]

StrategyNext ==
    \/ AdvancePush
    \/ AdvanceExhausted
    \/ StrategyMarket
    \/ DispatchSignal
    \/ DispatchOrder
    \/ DispatchFill

StrategySpec == StrategyInit /\ [][StrategyNext]_vars

(***************************************************************************)
(* C30  For the provided LONG/EXIT strategies driving the portfolio,       *)
(* whenever the event queue is empty and the strategy's intent flag for a  *)
(* symbol is OUT, the portfolio's position in that symbol is 0: every EXIT *)
(* the strategy has recorded has flattened the position, also when a       *)
(* signal was dropped for a missing price or for insufficient cash.        *)
(***************************************************************************)
OutMeansFlat ==
    events = <<>> =>
       \A s \in Symbols : strategy.bought[s] = "OUT" => current_positions[s] = 0

(***************************************************************************)
(* Termination                                                             *)
(***************************************************************************)
\* The runs followed to their end: symbol A has a bar on every date, symbol B
\* on every date or on every date but the first.
FairInit ==
    /\ Init
    /\ symbol_data["A"] = SeriesOn("A", "rise", Dates)
    /\ symbol_data["B"] \in {SeriesOn("B", "rise", Dates),
                             SeriesOn("B", "rise", Dates \ {1})}

\* The driving loop is a single thread that always takes its next step.
FairSpec == FairInit /\ [][Next]_vars /\ WF_vars(Next)

\* What one dispatch may push: a signal at most one order, an order exactly
\* one fill, a fill nothing.
DrainShrinks ==
    /\ dispatched.event.type = "SIGNAL" => dispatched.pushed \in {0, 1}
    /\ dispatched.event.type = "ORDER" => dispatched.pushed = 1
    /\ dispatched.event.type = "FILL" => dispatched.pushed = 0

Terminated == pc = "done"

Aborted == pc = "failed"

\* C11: every run eventually ends, by the loop's own exit or by an exception;
\* the loop exits only with the feed exhausted and the event queue empty; within
\* a drain a signal pushes at most one order, an order exactly one fill and a
\* fill nothing.
Termination ==
    /\ <>(Terminated \/ Aborted)
    /\ [](Terminated => Unseen = {} /\ events = <<>> /\ ~continue_backtest)
    /\ []DrainShrinks

TerminationWitness ==
    /\ Terminated
    /\ calls["MARKET"] = 2
    /\ Len(applied) >= 2
    /\ Unseen = {}
    /\ events = <<>>

====
